---- MODULE Spec2Model ----
(***************************************************************************)
(* Dense linear-algebra kernel: numerical_table, det, matrix and           *)
(* linear_equations.  The element type is double; a value is modelled as a *)
(* pair <<n, d>>: a fraction in lowest terms with d > 0, or an IEEE        *)
(* special with d = 0 (<<1,0>> = +inf, <<-1,0>> = -inf, <<0,0>> = NaN).    *)
(* Rounding is not modelled: arithmetic on finite values is exact.         *)
(***************************************************************************)
EXTENDS Integers, Sequences, FiniteSets, TLC

VARIABLES tbl,     \* the receiver's table: _M, _N, _data (column-major)
          pre,     \* the receiver's table before the last operation
          op,      \* the last operation and its arguments
          res,     \* what the last operation returned
          x,       \* linear_equations::_x, the solution vector
          junk,    \* contents of the memory just outside the backing store
          status,  \* "ok", or "crashed" once the process has terminated
          adj      \* the adjoint() call in progress: its locals and threads

vars == <<tbl, pre, op, res, x, junk, status, adj>>

(***************************************************************************)
(* Bounds of the model.                                                    *)
(***************************************************************************)
MaxDim == 2        \* tables have 1..MaxDim rows and columns
MaxOrder == 3      \* determinants and square matrices have order 1..MaxOrder
MaxEq == 2         \* systems have 1..MaxEq equations and 1..MaxEq+1 columns
SizeBits == 14     \* width of size_t in the model (64 in the build)
MaxData == 5       \* a constructor is given 0..MaxData initial values

SizeMod == 2 ^ SizeBits

(***************************************************************************)
(* double arithmetic.                                                      *)
(***************************************************************************)
Zero == <<0, 1>>
One == <<1, 1>>
NaN == <<0, 0>>

Scalars == {Zero, One}         \* element values the inputs are drawn from
Garbage == {Zero, One}         \* values a read outside the store may yield

Abs(n) == IF n < 0 THEN -n ELSE n
Sgn(n) == IF n < 0 THEN -1 ELSE IF n > 0 THEN 1 ELSE 0

RECURSIVE Gcd(_, _)
Gcd(a, b) == IF b = 0 THEN a ELSE Gcd(b, a % b)

Norm(n, d) ==
    LET s == IF d < 0 THEN -1 ELSE 1
        g == Gcd(Abs(n), Abs(d))
    IN  <<(s * n) \div g, (s * d) \div g>>

Neg(a) == <<-a[1], a[2]>>

Mul(a, b) ==
    IF a = NaN \/ b = NaN THEN NaN
    ELSE IF a[2] * b[2] = 0 THEN <<Sgn(a[1] * b[1]), 0>>
    ELSE Norm(a[1] * b[1], a[2] * b[2])

Add(a, b) ==
    IF a = NaN \/ b = NaN THEN NaN
    ELSE IF a[2] = 0 /\ b[2] = 0 THEN (IF a = b THEN a ELSE NaN)
    ELSE IF a[2] = 0 THEN a
    ELSE IF b[2] = 0 THEN b
    ELSE Norm(a[1] * b[2] + b[1] * a[2], a[2] * b[2])

\* a / b.  A zero divisor is +0.0 wherever the program divides (a sum that
\* starts at +0.0 never becomes -0.0), so x / 0 has the sign of x.
Div(a, b) ==
    IF a = NaN \/ b = NaN THEN NaN
    ELSE IF b[2] = 0 THEN (IF a[2] = 0 THEN NaN ELSE Zero)
    ELSE IF b[1] = 0 THEN <<Sgn(a[1]), 0>>
    ELSE IF a[2] = 0 THEN <<Sgn(a[1] * b[1]), 0>>
    ELSE Norm(a[1] * b[2], a[2] * b[1])

(***************************************************************************)
(* std::optional results.  ub records that the call touched memory outside *)
(* the backing store.                                                      *)
(***************************************************************************)
Absent == [k |-> "absent", v |-> <<>>, ub |-> FALSE]
Present(v) == [k |-> "value", v |-> v, ub |-> FALSE]
Void == [k |-> "void", v |-> <<>>, ub |-> FALSE]
Thrown == [k |-> "thrown", v |-> <<>>, ub |-> FALSE]    \* an exception escapes
InvalidArgument == [k |-> "thrown", v |-> "invalid_argument", ub |-> FALSE]
LengthError == [k |-> "thrown", v |-> "length_error", ub |-> FALSE]
Crashed == [k |-> "crashed", v |-> <<>>, ub |-> FALSE]  \* the process is gone

(***************************************************************************)
(* sequence.hpp                                                            *)
(***************************************************************************)
\* operator+(vector, vector)
seq_add(s1, s2) ==
    IF Len(s1) # Len(s2) THEN Absent
    ELSE Present([i \in 1..Len(s1) |-> Add(s1[i], s2[i])])

\* operator*(vector, scalar)
seq_times(s1, k) == [i \in 1..Len(s1) |-> Mul(s1[i], k)]

RECURSIVE DotLoop(_, _, _, _)
DotLoop(left, right, i, result) ==
    IF i > Len(left) THEN result
    ELSE DotLoop(left, right, i + 1, Add(result, Mul(left[i], right[i])))

\* a dot product that stops after the first pair
dot_first_pair(left, right) ==
    IF Len(left) # Len(right) THEN Absent
    ELSE Present(Mul(left[1], right[1]))

dot(left, right) ==
    IF Len(left) # Len(right) THEN Absent
    ELSE Present(DotLoop(left, right, 1, Zero))

(***************************************************************************)
(* numerical_table                                                         *)
(***************************************************************************)
\* std::vector<double>::max_size(): PTRDIFF_MAX / sizeof(double)
max_size == ((SizeMod \div 2) - 1) \div 8

\* the size_t product _M * _N
Product(M, N) == (M * N) % SizeMod

\* resize padding with 1 instead of T{}
Resize_padding_one(data, n) ==
    [p \in 1..n |-> IF p <= Len(data) THEN data[p] ELSE One]

\* _data.resize(n): cut to n elements, or padded with T{} up to n
Resize(data, n) == [p \in 1..n |-> IF p <= Len(data) THEN data[p] ELSE Zero]

\* numerical_table(M, N, data) for M, N >= 1: _data(data), then resize(M * N)
numerical_table(M, N, data) ==
    [M |-> M, N |-> N, data |-> Resize(data, Product(M, N))]

\* a constructor that tests the row count only
InvalidDimension_rows_only(M, N) == M = 0

\* the constructor throws std::invalid_argument
InvalidDimension(M, N) == M = 0 \/ N = 0

\* the constructor as a client sees it: a table, or the exception it throws
construct(M, N, data) ==
    IF InvalidDimension(M, N) THEN InvalidArgument
    ELSE IF Product(M, N) > max_size THEN LengthError
    ELSE Present(numerical_table(M, N, data))

\* numerical_table(): 1 row, 1 column, {1}
Default == numerical_table(1, 1, <<One>>)

\* copy construction and copy assignment
copy_construct(other) == [M |-> other.M, N |-> other.N, data |-> other.data]

copy_assign(self, other) == [M |-> other.M, N |-> other.N, data |-> other.data]

\* move construction and move assignment: what the target becomes (self) and
\* what the source is left as (other)
move_construct(other) ==
    [self |-> [M |-> other.M, N |-> other.N, data |-> other.data],
     other |-> [M |-> 1, N |-> 1, data |-> <<One>>]]

move_assign(self, other) ==
    [self |-> [M |-> other.M, N |-> other.N, data |-> other.data],
     other |-> [M |-> 1, N |-> 1, data |-> <<One>>]]

\* column * get_M() + row after --row, --column, in size_t arithmetic
Index(t, row, column) ==
    ((((column - 1) % SizeMod) * t.M) + ((row - 1) % SizeMod)) % SizeMod

InStore(t, p) == p < Len(t.data)

get_element(t, row, column) ==
    IF row > t.M \/ column > t.N THEN Absent
    ELSE IF InStore(t, Index(t, row, column))
         THEN Present(t.data[Index(t, row, column) + 1])
         ELSE [k |-> "value", v |-> junk, ub |-> TRUE]

\* the table after set_element; a write outside the store leaves it as it is
set_element(t, i, j, value) ==
    IF i > t.M \/ j > t.N THEN t
    ELSE IF InStore(t, Index(t, i, j))
         THEN [t EXCEPT !.data[Index(t, i, j) + 1] = value]
         ELSE t

\* set_element(i, j, _) writes outside the store
set_element_ub(t, i, j) ==
    ~(i > t.M \/ j > t.N) /\ ~InStore(t, Index(t, i, j))

get_row(t, row) ==
    IF row > t.M THEN Absent
    ELSE [k |-> "value",
          v |-> [i \in 1..t.N |-> get_element(t, row, i).v],
          ub |-> \E i \in 1..t.N : get_element(t, row, i).ub]

RECURSIVE SetRowLoop(_, _, _, _)
SetRowLoop(t, row, values, i) ==
    IF i > t.N THEN t
    ELSE SetRowLoop(set_element(t, row, i, values[i]), row, values, i + 1)

set_row(t, row, values) ==
    IF row > t.M THEN t
    ELSE IF Len(values) # t.N THEN t
    ELSE SetRowLoop(t, row, values, 1)

set_row_ub(t, row, values) ==
    /\ ~(row > t.M)
    /\ Len(values) = t.N
    /\ \E i \in 1..t.N : set_element_ub(t, row, i)

get_column(t, column) ==
    IF column > t.N THEN Absent
    ELSE [k |-> "value",
          v |-> [i \in 1..t.M |-> get_element(t, i, column).v],
          ub |-> \E i \in 1..t.M : get_element(t, i, column).ub]

RECURSIVE SetColumnLoop(_, _, _, _)
SetColumnLoop(t, column, values, i) ==
    IF i > t.M THEN t
    ELSE SetColumnLoop(set_element(t, i, column, values[i]), column, values, i + 1)

set_column(t, column, values) ==
    IF column > t.M THEN t
    ELSE IF Len(values) # t.M THEN t
    ELSE SetColumnLoop(t, column, values, 1)

set_column_ub(t, column, values) ==
    /\ ~(column > t.M)
    /\ Len(values) = t.M
    /\ \E i \in 1..t.M : set_element_ub(t, i, column)

swap_row(t, i, j) ==
    IF i > t.M \/ j > t.M THEN t
    ELSE set_row(set_row(t, i, get_row(t, j).v), j, get_row(t, i).v)

swap_row_ub(t, i, j) ==
    /\ ~(i > t.M \/ j > t.M)
    /\ \/ get_row(t, i).ub
       \/ get_row(t, j).ub
       \/ set_row_ub(t, i, get_row(t, j).v)
       \/ set_row_ub(t, j, get_row(t, i).v)

swap_column(t, i, j) ==
    IF i > t.N \/ j > t.N THEN t
    ELSE set_column(set_column(t, i, get_column(t, j).v), j, get_column(t, i).v)

swap_column_ub(t, i, j) ==
    /\ ~(i > t.N \/ j > t.N)
    /\ \/ get_column(t, i).ub
       \/ get_column(t, j).ub
       \/ set_column_ub(t, i, get_column(t, j).v)
       \/ set_column_ub(t, j, get_column(t, i).v)

ZeroData == <<Zero>>           \* the initializer {T{}}

\* the loops of transpose(); an access outside a store ends the evaluation,
\* with what was built so far and ub set
RECURSIVE TransposeLoop(_, _, _, _)
TransposeLoop(result, t, row, column) ==
    IF row > t.M THEN [t |-> result, ub |-> FALSE]
    ELSE IF column > t.N THEN TransposeLoop(result, t, row + 1, 1)
    ELSE IF get_element(t, row, column).ub \/ set_element_ub(result, column, row)
         THEN [t |-> result, ub |-> TRUE]
    ELSE TransposeLoop(
            set_element(result, column, row, get_element(t, row, column).v),
            t, row, column + 1)

\* a transpose that returns the table as it is
transpose_in_place(t) == [t |-> t, ub |-> FALSE]

transpose(t) == TransposeLoop(numerical_table(t.N, t.M, ZeroData), t, 1, 1)

\* set_N(N), noexcept: the std::length_error of resize ends the process
set_N(t, N) ==
    IF N = 0 THEN [t |-> t, dies |-> FALSE]
    ELSE IF Product(t.M, N) > max_size THEN [t |-> t, dies |-> TRUE]
    ELSE [t |-> [M |-> t.M, N |-> N, data |-> Resize(t.data, Product(t.M, N))],
          dies |-> FALSE]

\* set_M(M): transpose, set_N(M), transpose back, move-assign to *this
set_M(t, M) ==
    IF M = 0 THEN [t |-> t, ub |-> FALSE, dies |-> FALSE]
    ELSE LET tmp == transpose(t)
             sized == set_N(tmp.t, M)
             back == transpose(sized.t)
         IN  IF tmp.ub THEN [t |-> t, ub |-> TRUE, dies |-> FALSE]
             ELSE IF sized.dies THEN [t |-> t, ub |-> FALSE, dies |-> TRUE]
             ELSE [t |-> move_assign(t, back.t).self, ub |-> back.ub,
                   dies |-> FALSE]

(***************************************************************************)
(* det: a square numerical_table, _nt.                                     *)
(***************************************************************************)
\* det(N, data)
det(N, data) == numerical_table(N, N, data)

Max(S) == CHOOSE m \in S : \A n \in S : n <= m

Reverse(s) == [i \in 1..Len(s) |-> s[Len(s) + 1 - i]]

\* std::next_permutation: the next arrangement in lexicographic order, or
\* the first one again, with more = FALSE, after the last
next_permutation(a) ==
    LET n == Len(a)
        I == {i \in 1..(n - 1) : a[i] < a[i + 1]}
    IN  IF I = {} THEN [more |-> FALSE, a |-> Reverse(a)]
        ELSE LET i == Max(I)
                 j == Max({h \in (i + 1)..n : a[i] < a[h]})
                 sw == [a EXCEPT ![i] = a[j], ![j] = a[i]]
             IN  [more |-> TRUE,
                  a |-> SubSeq(sw, 1, i) \o Reverse(SubSeq(sw, i + 1, n))]

\* inverse_number: how many elements before position index exceed s[index]
inverse_number(s, index) ==
    Cardinality({f \in 1..(index - 1) : s[index] < s[f]})

RECURSIVE InverseSum(_, _)
InverseSum(s, tfirst) ==
    IF tfirst > Len(s) THEN 0
    ELSE inverse_number(s, tfirst) + InverseSum(s, tfirst + 1)

elements_inverse_number(s) == IF Len(s) = 0 THEN 0 ELSE InverseSum(s, 2)

\* the inner loop of general_calculate: the product of the selected elements,
\* cut to 0 at the first element that is 0
RECURSIVE TermLoop(_, _, _, _)
TermLoop(d, indices, index, tresult) ==
    IF index > d.M THEN tresult
    ELSE IF get_element(d, index, indices[index]).v = Zero THEN Zero
    ELSE TermLoop(d, indices, index + 1,
                  Mul(tresult, get_element(d, index, indices[index]).v))

\* a term that always starts from +1
Term_unsigned(d, indices) == TermLoop(d, indices, 1, One)

Term(d, indices) ==
    TermLoop(d, indices, 1,
             IF elements_inverse_number(indices) % 2 = 0 THEN One ELSE Neg(One))

RECURSIVE GeneralLoop(_, _, _)
GeneralLoop(d, indices, result) ==
    LET np == next_permutation(indices)
    IN  IF np.more THEN GeneralLoop(d, np.a, Add(result, Term(d, indices)))
        ELSE Add(result, Term(d, indices))

\* the arrangements of indices the do-while of general_calculate goes through
RECURSIVE VisitLoop(_, _)
VisitLoop(indices, visited) ==
    LET np == next_permutation(indices)
    IN  IF np.more THEN VisitLoop(np.a, Append(visited, indices))
        ELSE Append(visited, indices)

general_calculate(d) ==
    IF d.M = 1 THEN get_element(d, 1, 1).v
    ELSE GeneralLoop(d, [i \in 1..d.M |-> i], Zero)

\* the pivot search of elimination: swap row r1 with the first row r2 > r1
\* for which element (r1, r2) is not 0
RECURSIVE PivotSearch(_, _, _)
PivotSearch(d, r1, r2) ==
    IF r2 > d.M THEN d
    ELSE IF get_element(d, r1, r2).v # Zero THEN swap_row(d, r1, r2)
    ELSE PivotSearch(d, r1, r2 + 1)

\* row r2 <- row r1 * (-(r2, r1) / (r1, r1)) + row r2, for r2 = from..N
RECURSIVE EliminateBelow(_, _, _)
EliminateBelow(d, r1, r2) ==
    IF r2 > d.M THEN d
    ELSE EliminateBelow(
            set_row(d, r2,
                    seq_add(seq_times(get_row(d, r1).v,
                                      Div(Neg(get_element(d, r2, r1).v),
                                          get_element(d, r1, r1).v)),
                            get_row(d, r2).v).v),
            r1, r2 + 1)

RECURSIVE EliminationLoop(_, _)
EliminationLoop(d, r1) ==
    IF ~(r1 < d.M) THEN d
    ELSE LET s == IF get_element(d, r1, r1).v = Zero
                  THEN PivotSearch(d, r1, r1 + 1) ELSE d
         IN  IF get_element(s, r1, r1).v = Zero
             THEN EliminationLoop(s, r1 + 1)
             ELSE EliminationLoop(EliminateBelow(s, r1, r1 + 1), r1 + 1)

elimination(d) == IF d.M = 1 THEN d ELSE EliminationLoop(d, 1)

RECURSIVE DiagonalProduct(_, _, _)
DiagonalProduct(d, i, result) ==
    IF i > d.M THEN result
    ELSE DiagonalProduct(d, i + 1, Mul(result, get_element(d, i, i).v))

elimination_calculate(d) ==
    IF d.M = 1 THEN get_element(d, 1, 1).v
    ELSE DiagonalProduct(elimination(d), 1, One)

\* an erase that always drops the first element
Erase_first(line, j) == SubSeq(line, 2, Len(line))

\* m_i_j: the determinant without row i and column j
Erase(line, j) == SubSeq(line, 1, j - 1) \o SubSeq(line, j + 1, Len(line))

RECURSIVE MinorLoop(_, _, _, _, _)
MinorLoop(d, i, j, index, result) ==
    IF index > d.M THEN result
    ELSE IF index = i THEN MinorLoop(d, i, j, index + 1, result)
    ELSE MinorLoop(d, i, j, index + 1,
                   set_row(result, IF index < i THEN index ELSE index - 1,
                           Erase(get_row(d, index).v, j)))

m_i_j(d, i, j) ==
    IF i < 1 \/ i > d.M \/ j < 1 \/ j > d.M \/ d.M = 1 THEN Absent
    ELSE Present(MinorLoop(d, i, j, 1, det(d.M - 1, ZeroData)))

\* the loop of algebraic_complement_minor: every row times T(-1)
RECURSIVE NegateRows(_, _)
NegateRows(result, row) ==
    IF row > result.M THEN result
    ELSE NegateRows(set_row(result, row,
                            seq_times(get_row(result, row).v, Neg(One))),
                    row + 1)

\* algebraic_complement_minor: m_i_j(i, j).value() throws
\* std::bad_optional_access when the minor is absent
algebraic_complement_minor(d, i, j) ==
    IF m_i_j(d, i, j).k = "absent" THEN Thrown
    ELSE IF ((i + j) % SizeMod) % 2 = 1
         THEN Present(NegateRows(m_i_j(d, i, j).v, 1))
         ELSE Present(m_i_j(d, i, j).v)

(***************************************************************************)
(* matrix: a numerical_table with arithmetic.                              *)
(***************************************************************************)
matrix(M, N, data) == numerical_table(M, N, data)

RECURSIVE CopyRows(_, _, _)
CopyRows(result, m, i) ==
    IF i > m.M THEN result
    ELSE CopyRows(set_row(result, i, get_row(m, i).v), m, i + 1)

\* matrix::det()
matrix_det(m) ==
    IF m.M # m.N THEN Absent
    ELSE Present(CopyRows(det(m.M, ZeroData), m, 1))

RECURSIVE TimesLoop(_, _, _)
TimesLoop(m, t, i) ==
    IF i > m.M THEN m
    ELSE TimesLoop(set_row(m, i, seq_times(get_row(m, i).v, t)), t, i + 1)

\* operator*=(t)
matrix_times_assign(m, t) ==
    IF t = Zero THEN Absent ELSE Present(TimesLoop(m, t, 1))

\* operator*(t)
matrix_times(m, t) ==
    IF t = Zero THEN Absent ELSE Present(matrix_times_assign(m, t).v)

\* operator*(matrix): cells are filled for i = 1..M, j = 1..right.N in turn
RECURSIVE ProductLoop(_, _, _, _, _)
ProductLoop(result, left, right, i, j) ==
    IF i > result.M THEN result
    ELSE IF j > result.N THEN ProductLoop(result, left, right, i + 1, 1)
    ELSE ProductLoop(
            set_element(result, i, j,
                        dot(get_row(left, i).v, get_column(right, j).v).v),
            left, right, i, j + 1)

matrix_product(left, right) ==
    IF left.N # right.M THEN Absent
    ELSE Present(ProductLoop(matrix(left.M, right.N, ZeroData), left, right, 1, 1))

\* adjoint(): the worker for cell (r, c) stores m_i_j(r, c).general_calculate()
AdjointCell(tdet, r, c) == general_calculate(m_i_j(tdet, r, c).v)

RECURSIVE AdjointLoop(_, _, _, _)
AdjointLoop(result, tdet, i, j) ==
    IF i > result.M THEN result
    ELSE IF j > result.N THEN AdjointLoop(result, tdet, i + 1, 1)
    ELSE AdjointLoop(set_element(result, i, j, AdjointCell(tdet, i, j)),
                     tdet, i, j + 1)

adjoint(m) ==
    IF m.M # m.N THEN Absent
    ELSE IF m.M = 1 \/ m.N = 1 THEN Absent
    ELSE Present(AdjointLoop(matrix(m.M, m.N, ZeroData), matrix_det(m).v, 1, 1))

\* No adjoint() call is in progress.
Idle == [pc |-> "idle", next |-> 0, tdet |-> <<>>, result |-> <<>>,
         w |-> <<>>, ttdet |-> <<>>, writers |-> <<>>]

\* adjoint() past its two tests: result and tdet are built, arr_thread is
\* empty.  w[k] is where the k-th thread stands, ttdet[k] its local minor,
\* writers[p] the threads that have written element p of result's store.
adjoint_begin(m) ==
    [pc |-> "spawn", next |-> 1,
     tdet |-> matrix_det(m).v,
     result |-> matrix(m.M, m.N, ZeroData),
     w |-> [k \in 1..(m.M * m.N) |-> "none"],
     ttdet |-> [k \in 1..(m.M * m.N) |-> Absent],
     writers |-> [p \in 1..(m.M * m.N) |-> <<>>]]

\* the arguments (i, j) the k-th push_back hands to its thread
thread_r(a, k) == ((k - 1) \div a.result.N) + 1
thread_c(a, k) == ((k - 1) % a.result.N) + 1

\* arr_thread.push_back(jthread(...)): the thread starts
push_back(a) ==
    [a EXCEPT !.w[a.next] = "start",
              !.next = IF a.next = Len(a.w) THEN 1 ELSE a.next + 1,
              !.pc = IF a.next = Len(a.w) THEN "join" ELSE "spawn"]

\* auto ttdet = tdet.m_i_j(r, c)
thread_minor(a, k) ==
    [a EXCEPT !.ttdet[k] = m_i_j(a.tdet, thread_r(a, k), thread_c(a, k)),
              !.w[k] = "minor"]

\* result.set_element(r, c, ttdet.value().general_calculate())
thread_store(a, k) ==
    [a EXCEPT !.result = set_element(a.result, thread_r(a, k), thread_c(a, k),
                                     general_calculate(a.ttdet[k].v)),
              !.writers[Index(a.result, thread_r(a, k), thread_c(a, k)) + 1] =
                  Append(@, k),
              !.w[k] = "done"]

\* a join that does not wait
joinable_at_once(a, k) == TRUE

\* i.join() returns once the thread has finished
joinable(a, k) == a.w[k] = "done"

\* the join loop moves on to the next thread, or leaves the loop
join(a) ==
    [a EXCEPT !.next = a.next + 1,
              !.pc = IF a.next = Len(a.w) THEN "return" ELSE "join"]

\* inverse(): adjoint().value() throws std::bad_optional_access when absent
inverse(m) ==
    LET vdet == matrix_det(m)
        adjoint_matrix == adjoint(m)
    IN  IF vdet.k = "absent" THEN Absent
        ELSE IF adjoint_matrix.k = "absent" THEN Thrown
        ELSE matrix_times(adjoint_matrix.v,
                          Div(One, general_calculate(vdet.v)))

\* (A * A.inverse().value()).value(), as the demo evaluates it
times_inverse(m) ==
    LET B == inverse(m)
    IN  IF B.k # "value" THEN Thrown
        ELSE IF matrix_product(m, B.v).k # "value" THEN Thrown
        ELSE matrix_product(m, B.v)

\* operator* of an optional: the value it holds, or, when it holds none,
\* whatever its storage contains
unwrap(o) ==
    IF o.k = "absent" THEN [v |-> junk, ub |-> TRUE]
    ELSE [v |-> o.v, ub |-> o.ub]

row_times(m, row, t) ==
    IF row < 1 \/ row > m.M THEN m
    ELSE set_row(m, row, seq_times(unwrap(get_row(m, row)).v, t))

row_add_times_row(m, row_1, row_2, k) ==
    IF row_1 < 1 \/ row_1 > m.M \/ row_2 < 1 \/ row_2 > m.M THEN m
    ELSE set_row(m, row_1,
                 unwrap(seq_add(unwrap(get_row(m, row_1)).v,
                                seq_times(unwrap(get_row(m, row_2)).v, k))).v)

\* matrix::elimination().  s is [m, ub]: the matrix so far and whether an
\* optional that holds no value was unwrapped.
\* the search for a nonzero entry below (i, i): every hit swaps, none breaks
RECURSIVE SwapLoop(_, _, _)
SwapLoop(s, i, j) ==
    IF j > s.m.M THEN s
    ELSE LET e == unwrap(get_element(s.m, j, i))
         IN  SwapLoop([m |-> IF e.v # Zero THEN swap_row(s.m, i, j) ELSE s.m,
                       ub |-> s.ub \/ e.ub], i, j + 1)

\* rows j = i + 1 .. M, each minus (j, i) / (i, i) times row i
RECURSIVE BelowLoop(_, _, _)
BelowLoop(s, i, j) ==
    IF j > s.m.M THEN s
    ELSE LET a == unwrap(get_element(s.m, j, i))
             b == unwrap(get_element(s.m, i, i))
             k == Div(a.v, b.v)
         IN  BelowLoop([m |-> row_add_times_row(s.m, j, i, Neg(k)),
                        ub |-> s.ub \/ a.ub \/ b.ub], i, j + 1)

\* rows j = i - 1 .. 1, each minus (j, i) times row i
RECURSIVE AboveLoop(_, _, _)
AboveLoop(s, i, j) ==
    IF j = 0 THEN s
    ELSE LET k == unwrap(get_element(s.m, j, i))
         IN  AboveLoop([m |-> row_add_times_row(s.m, j, i, Neg(k.v)),
                        ub |-> s.ub \/ k.ub], i, j - 1)

\* the inner loop over i = M .. 2, whose i hides the outer one
RECURSIVE UpwardLoop(_, _)
UpwardLoop(s, i) ==
    IF ~(i > 1) THEN s
    ELSE LET e == unwrap(get_element(s.m, i, i))
             s1 == [s EXCEPT !.ub = s.ub \/ e.ub]
         IN  IF e.v = Zero THEN UpwardLoop(s1, i - 1)
             ELSE UpwardLoop(AboveLoop(s1, i, i - 1), i - 1)

\* one pass of the outer loop from the scaling of row i on
ReduceRow(s, i) ==
    LET p == unwrap(get_element(s.m, i, i))
        s1 == [m |-> row_times(s.m, i, Div(One, p.v)), ub |-> s.ub \/ p.ub]
        s2 == BelowLoop(s1, i, i + 1)
    IN  UpwardLoop(s2, s2.m.M)

\* the outer loop over i = 1 .. N - 1
RECURSIVE ReduceLoop(_, _)
ReduceLoop(s, i) ==
    IF ~(i < s.m.N) THEN s
    ELSE LET e == unwrap(get_element(s.m, i, i))
             s1 == [s EXCEPT !.ub = s.ub \/ e.ub]
         IN  IF e.v = Zero
             THEN LET s2 == SwapLoop(s1, i, i + 1)
                      f == unwrap(get_element(s2.m, i, i))
                      s3 == [s2 EXCEPT !.ub = s2.ub \/ f.ub]
                  IN  IF f.v = Zero THEN ReduceLoop(s3, i + 1)
                      ELSE ReduceLoop(ReduceRow(s3, i), i + 1)
             ELSE ReduceLoop(ReduceRow(s1, i), i + 1)

matrix_elimination(m) ==
    IF m.N = 1 \/ m.M = 1 THEN [m |-> m, ub |-> FALSE]
    ELSE ReduceLoop([m |-> m, ub |-> FALSE], 1)

(***************************************************************************)
(* linear_equations: _data, the augmented table, and _x.                   *)
(***************************************************************************)
\* columns i..N-1 of _data copied into d
RECURSIVE CopyColumns(_, _, _)
CopyColumns(d, t, i) ==
    IF ~(i < t.N) THEN d
    ELSE CopyColumns(set_column(d, i, get_column(t, i).v), t, i + 1)

coefficient_det(t) == CopyColumns(det(t.N - 1, ZeroData), t, 1)

\* the second loop of calculate(): one quotient per unknown
RECURSIVE CramerLoop(_, _, _, _, _)
CramerLoop(t, augmented_det, d0, i, xs) ==
    IF ~(i < t.N) THEN xs
    ELSE LET a == IF i # 1
                  THEN set_column(
                          set_column(augmented_det, i, get_column(t, t.N).v),
                          i - 1, get_column(t, i - 1).v)
                  ELSE set_column(augmented_det, i, get_column(t, t.N).v)
         IN  CramerLoop(t, a, d0, i + 1,
                        Append(xs, Div(general_calculate(a), d0)))

\* a calculate() that does not divide by the coefficient determinant
Cramer_undivided(t, xs) ==
    IF InvalidDimension(t.N - 1, t.N - 1) THEN [x |-> xs, dies |-> TRUE]
    ELSE IF general_calculate(coefficient_det(t)) = Zero
         THEN [x |-> xs, dies |-> FALSE]
    ELSE [x |-> CramerLoop(t, coefficient_det(t), One, 1, xs), dies |-> FALSE]

\* calculate() from _x.clear() on; xs is _x after the clear
Cramer(t, xs) ==
    IF InvalidDimension(t.N - 1, t.N - 1) THEN [x |-> xs, dies |-> TRUE]
    ELSE LET d0 == general_calculate(coefficient_det(t))
         IN  IF d0 = Zero THEN [x |-> xs, dies |-> FALSE]
             ELSE [x |-> CramerLoop(t, coefficient_det(t), d0, 1, xs),
                   dies |-> FALSE]

\* calculate() without its _x.clear()
calculate_without_clear(t, xs) ==
    IF t.M <= 1 THEN [x |-> xs, dies |-> FALSE]
    ELSE Cramer(t, xs)

calculate(t, xs) ==
    IF t.M <= 1 THEN [x |-> xs, dies |-> FALSE]
    ELSE Cramer(t, <<>>)

ceofficient(t) == CopyColumns(matrix(t.M, t.N - 1, ZeroData), t, 1)

constant(t) == matrix(t.M, 1, get_column(t, t.N).v)

\* calculate_inverse(): any .value() of an absent result, and any exception,
\* ends in std::terminate because the function is noexcept
calculate_inverse(t, xs) ==
    IF t.M <= 1 THEN [x |-> xs, dies |-> FALSE]
    ELSE IF InvalidDimension(t.M, t.N - 1) THEN [x |-> xs, dies |-> TRUE]
    ELSE LET inv == inverse(ceofficient(t))
         IN  IF inv.k # "value" THEN [x |-> xs, dies |-> TRUE]
             ELSE LET prod == matrix_product(inv.v, constant(t))
                  IN  IF prod.k # "value" THEN [x |-> xs, dies |-> TRUE]
                      ELSE [x |-> get_column(prod.v, 1).v, dies |-> FALSE]

\* x_n(n): _x[n - 1] in size_t arithmetic
x_n(xs, n) ==
    IF n >= Len(xs) THEN Absent
    ELSE IF ((n - 1) % SizeMod) < Len(xs)
         THEN Present(xs[((n - 1) % SizeMod) + 1])
         ELSE [k |-> "value", v |-> junk, ub |-> TRUE]

(***************************************************************************)
(* Table operations as steps of a client of one table.                     *)
(***************************************************************************)
Dims == 1..MaxDim
Indices == 0..(MaxDim + 1)
Lines == UNION {[1..n -> Scalars] : n \in 0..(MaxDim + 1)}
\* the tables numerical_table(M, N, data) builds from M * N scalars
Built(t, Ms, Ns) ==
    \E M \in Ms, N \in Ns :
        \E data \in [1..(M * N) -> Scalars] : t = numerical_table(M, N, data)

NoOp == [name |-> "new", i |-> 0, j |-> 0, vals |-> <<>>]
Call(name, i, j, vals) == [name |-> name, i |-> i, j |-> j, vals |-> vals]

\* A call returns: the table becomes t, the solution vector xs and the result
\* r.  A call that touched memory outside the store (ub) either kills the
\* process or goes on with whatever it read there; a call that lets an
\* exception escape a noexcept function (dies) kills the process.
Step(call, t, xs, r, ub, dies) ==
    /\ status = "ok"
    /\ pre' = tbl
    /\ op' = call
    /\ junk' = junk
    /\ adj' = adj
    /\ \/ /\ ub \/ dies
          /\ status' = "crashed"
          /\ tbl' = tbl
          /\ x' = x
          /\ res' = [Crashed EXCEPT !.ub = ub]
       \/ /\ ~dies
          /\ status' = "ok"
          /\ tbl' = t
          /\ x' = xs
          /\ res' = [r EXCEPT !.ub = ub]

Return(call, t, r, ub) == Step(call, t, x, r, ub, FALSE)

GetElement ==
    \E r \in Indices, c \in Indices :
        Return(Call("get_element", r, c, <<>>), tbl,
               get_element(tbl, r, c), get_element(tbl, r, c).ub)

SetElement ==
    \E i \in Indices, j \in Indices, v \in Scalars :
        Return(Call("set_element", i, j, <<v>>),
               set_element(tbl, i, j, v), Void, set_element_ub(tbl, i, j))

GetRow ==
    \E r \in Indices :
        Return(Call("get_row", r, 0, <<>>), tbl, get_row(tbl, r), get_row(tbl, r).ub)

SetRow ==
    \E r \in Indices, v \in Lines :
        Return(Call("set_row", r, 0, v),
               set_row(tbl, r, v), Void, set_row_ub(tbl, r, v))

GetColumn ==
    \E c \in Indices :
        Return(Call("get_column", 0, c, <<>>), tbl,
               get_column(tbl, c), get_column(tbl, c).ub)

SetColumn ==
    \E c \in Indices, v \in Lines :
        Return(Call("set_column", 0, c, v),
               set_column(tbl, c, v), Void, set_column_ub(tbl, c, v))

SwapRow ==
    \E i \in Indices, j \in Indices :
        Return(Call("swap_row", i, j, <<>>),
               swap_row(tbl, i, j), Void, swap_row_ub(tbl, i, j))

SwapColumn ==
    \E i \in Indices, j \in Indices :
        Return(Call("swap_column", i, j, <<>>),
               swap_column(tbl, i, j), Void, swap_column_ub(tbl, i, j))

TableInit ==
    /\ Built(tbl, Dims, Dims)
    /\ pre = tbl
    /\ op = NoOp
    /\ res = Void
    /\ x = <<>>
    /\ junk \in Garbage
    /\ status = "ok"
    /\ adj = Idle

TableNext ==
    \/ GetElement
    \/ SetElement
    \/ GetRow
    \/ SetRow
    \/ GetColumn
    \/ SetColumn
    \/ SwapRow
    \/ SwapColumn

TableSpec == TableInit /\ [][TableNext]_vars

(***************************************************************************)
(* Construction, copy, move and resizing as steps of a client that holds   *)
(* one table, default-constructed and then assigned from                   *)
(* numerical_table(M, N, data).                                            *)
(***************************************************************************)
Huge == SizeMod \div 2                    \* the size_t value 2^(w-1)
DimArgs == (0..MaxDim) \cup {Huge}
Data == UNION {[1..n -> Scalars] : n \in 0..MaxData}
\* the tables another object of the client holds
Others == {numerical_table(M, N, <<One>>) : M \in Dims, N \in Dims}

CopyConstruct ==
    Return(Call("copy_construct", 0, 0, <<>>), tbl,
           Present(copy_construct(tbl)), FALSE)

CopyAssign ==
    \E other \in Others :
        Return(Call("copy_assign", other.M, other.N, other.data),
               copy_assign(tbl, other), Present(other), FALSE)

\* numerical_table b(std::move(a)): tbl is a, the result is b
MoveConstruct ==
    Return(Call("move_construct", 0, 0, <<>>), move_construct(tbl).other,
           Present(move_construct(tbl).self), FALSE)

\* a = std::move(b): tbl is a, the result is b as the move leaves it
MoveAssign ==
    \E other \in Others :
        Return(Call("move_assign", other.M, other.N, other.data),
               move_assign(tbl, other).self,
               Present(move_assign(tbl, other).other), FALSE)

SetM ==
    \E M \in DimArgs :
        LET out == set_M(tbl, M)
        IN  Step(Call("set_M", M, 0, <<>>), out.t, x, Void, out.ub, out.dies)

SetN ==
    \E N \in DimArgs :
        LET out == set_N(tbl, N)
        IN  Step(Call("set_N", 0, N, <<>>), out.t, x, Void, FALSE, out.dies)

Transpose ==
    LET out == transpose(tbl)
    IN  Return(Call("transpose", 0, 0, <<>>), tbl, Present(out.t), out.ub)

ShapeInit ==
    /\ \E M \in DimArgs, N \in DimArgs, data \in Data :
          /\ op = Call("numerical_table", M, N, data)
          /\ res = construct(M, N, data)
          /\ tbl = IF construct(M, N, data).k = "value"
                   THEN move_assign(Default, construct(M, N, data).v).self
                   ELSE Default
    /\ pre = Default
    /\ x = <<>>
    /\ junk \in Garbage
    /\ status = "ok"
    /\ adj = Idle

ShapeNext ==
    \/ CopyConstruct
    \/ CopyAssign
    \/ MoveConstruct
    \/ MoveAssign
    \/ SetM
    \/ SetN
    \/ Transpose

ShapeSpec == ShapeInit /\ [][ShapeNext]_vars

(***************************************************************************)
(* Determinant operations as steps of a client of one determinant.         *)
(***************************************************************************)
Orders == 1..MaxOrder

GeneralCalculate ==
    Return(Call("general_calculate", 0, 0, <<>>), tbl,
           Present(general_calculate(tbl)), FALSE)

Elimination ==
    Return(Call("elimination", 0, 0, <<>>), elimination(tbl), Void, FALSE)

EliminationCalculate ==
    Return(Call("elimination_calculate", 0, 0, <<>>), tbl,
           Present(elimination_calculate(tbl)), FALSE)

MIJ ==
    \E i \in 0..(MaxOrder + 1), j \in 0..(MaxOrder + 1) :
        Return(Call("m_i_j", i, j, <<>>), tbl, m_i_j(tbl, i, j), FALSE)

AlgebraicComplementMinor ==
    \E i \in 0..(MaxOrder + 1), j \in 0..(MaxOrder + 1) :
        Return(Call("algebraic_complement_minor", i, j, <<>>), tbl,
               algebraic_complement_minor(tbl, i, j), FALSE)

DetInit ==
    /\ \E N \in Orders : Built(tbl, {N}, {N})
    /\ pre = tbl
    /\ op = NoOp
    /\ res = Void
    /\ x = <<>>
    /\ junk = Zero
    /\ status = "ok"
    /\ adj = Idle

DetNext ==
    \/ GeneralCalculate
    \/ Elimination
    \/ EliminationCalculate
    \/ MIJ
    \/ AlgebraicComplementMinor

DetSpec == DetInit /\ [][DetNext]_vars

(***************************************************************************)
(* Matrix operations as steps of a client of one matrix.                   *)
(***************************************************************************)
Inverse ==
    Return(Call("inverse", 0, 0, <<>>), tbl, inverse(tbl), FALSE)

TimesInverse ==
    Return(Call("times_inverse", 0, 0, <<>>), tbl, times_inverse(tbl), FALSE)

Adjoint ==
    Return(Call("adjoint", 0, 0, <<>>), tbl, adjoint(tbl), FALSE)

MatrixInit ==
    /\ Built(tbl, Orders, Orders)
    /\ pre = tbl
    /\ op = NoOp
    /\ res = Void
    /\ x = <<>>
    /\ junk = Zero
    /\ status = "ok"
    /\ adj = Idle

MatrixNext ==
    \/ Inverse
    \/ TimesInverse
    \/ Adjoint

MatrixSpec == MatrixInit /\ [][MatrixNext]_vars

(***************************************************************************)
(* adjoint() step by step: the calling thread and the threads it starts.   *)
(***************************************************************************)
Pending == [k |-> "pending", v |-> <<>>, ub |-> FALSE]

\* matrices of order 1..MaxDim with the entries 1, 2, 3, ... and 1, 0, 1, ...
AdjointInputs ==
    {matrix(N, N, [p \in 1..(N * N) |-> <<p, 1>>]) : N \in Dims}
        \cup {matrix(N, N, [p \in 1..(N * N) |-> <<p % 2, 1>>]) : N \in Dims}
        \cup {matrix(1, 2, <<One, One>>)}

\* the call: absent at once, or result and tdet are set up
AdjointCall ==
    /\ status = "ok"
    /\ adj.pc \in {"idle", "returned"}
    /\ pre' = tbl
    /\ op' = Call("adjoint", 0, 0, <<>>)
    /\ IF adjoint(tbl) = Absent
       THEN res' = Absent /\ adj' = Idle
       ELSE res' = Pending /\ adj' = adjoint_begin(tbl)
    /\ UNCHANGED <<tbl, x, junk, status>>

AdjointPushBack ==
    /\ adj.pc = "spawn"
    /\ adj' = push_back(adj)
    /\ UNCHANGED <<tbl, pre, op, res, x, junk, status>>

ThreadMinor ==
    \E k \in 1..(MaxDim * MaxDim) :
        /\ adj.pc \in {"spawn", "join", "return", "returned"}
        /\ k <= Len(adj.w)
        /\ adj.w[k] = "start"
        /\ adj' = thread_minor(adj, k)
        /\ UNCHANGED <<tbl, pre, op, res, x, junk, status>>

ThreadStore ==
    \E k \in 1..(MaxDim * MaxDim) :
        /\ adj.pc \in {"spawn", "join", "return", "returned"}
        /\ k <= Len(adj.w)
        /\ adj.w[k] = "minor"
        /\ adj' = thread_store(adj, k)
        /\ UNCHANGED <<tbl, pre, op, res, x, junk, status>>

AdjointJoin ==
    /\ adj.pc = "join"
    /\ joinable(adj, adj.next)
    /\ adj' = join(adj)
    /\ UNCHANGED <<tbl, pre, op, res, x, junk, status>>

AdjointReturn ==
    /\ adj.pc = "return"
    /\ res' = Present(adj.result)
    /\ adj' = [adj EXCEPT !.pc = "returned"]
    /\ UNCHANGED <<tbl, pre, op, x, junk, status>>

AdjointInit ==
    /\ tbl \in AdjointInputs
    /\ pre = tbl
    /\ op = NoOp
    /\ res = Void
    /\ x = <<>>
    /\ junk = Zero
    /\ status = "ok"
    /\ adj = Idle

AdjointNext ==
    \/ AdjointCall
    \/ AdjointPushBack
    \/ ThreadMinor
    \/ ThreadStore
    \/ AdjointJoin
    \/ AdjointReturn

AdjointSpec == AdjointInit /\ [][AdjointNext]_vars

(***************************************************************************)
(* The matrix product as a step of a client of two matrices: tbl is the    *)
(* left operand, op holds the right one.                                   *)
(***************************************************************************)
MatrixProduct ==
    \E M \in Dims, N \in Dims :
        \E data \in [1..(M * N) -> Scalars] :
            Return(Call("operator*", M, N, data), tbl,
                   matrix_product(tbl, matrix(M, N, data)), FALSE)

ProductInit ==
    /\ Built(tbl, Dims, Dims)
    /\ pre = tbl
    /\ op = NoOp
    /\ res = Void
    /\ x = <<>>
    /\ junk = Zero
    /\ status = "ok"
    /\ adj = Idle

ProductNext == MatrixProduct

ProductSpec == ProductInit /\ [][ProductNext]_vars

(***************************************************************************)
(* Row reduction as the step of a client of one matrix of any shape,       *)
(* square or not.                                                          *)
(***************************************************************************)
\* the client reduces the matrix it built, once: the entries of a matrix
\* reduced again and again grow without bound
MatrixElimination ==
    LET out == matrix_elimination(tbl)
    IN  /\ op = NoOp
        /\ Return(Call("matrix_elimination", 0, 0, <<>>), out.m, Void, out.ub)

ReduceInit ==
    /\ Built(tbl, 1..MaxOrder, 1..(MaxOrder + 1))
    /\ pre = tbl
    /\ op = NoOp
    /\ res = Void
    /\ x = <<>>
    /\ junk \in Garbage
    /\ status = "ok"
    /\ adj = Idle

ReduceNext == MatrixElimination

ReduceSpec == ReduceInit /\ [][ReduceNext]_vars

(***************************************************************************)
(* Solver operations as steps of a client of one linear_equations object.  *)
(* op.vals is _x before the call.                                          *)
(***************************************************************************)
Calculate ==
    LET out == calculate(tbl, x)
    IN  Step(Call("calculate", 0, 0, x), tbl, out.x, Void, FALSE, out.dies)

CalculateInverse ==
    LET out == calculate_inverse(tbl, x)
    IN  Step(Call("calculate_inverse", 0, 0, x), tbl, out.x, Void, FALSE, out.dies)

XN ==
    \E n \in 0..(MaxEq + 1) :
        Step(Call("x_n", n, 0, x), tbl, x, x_n(x, n), x_n(x, n).ub, FALSE)

LinearInit ==
    /\ Built(tbl, 1..MaxEq, 1..(MaxEq + 1))
    /\ pre = tbl
    /\ op = NoOp
    /\ res = Void
    /\ x = <<>>
    /\ junk \in Garbage
    /\ status = "ok"
    /\ adj = Idle

LinearNext ==
    \/ Calculate
    \/ CalculateInverse
    \/ XN

LinearSpec == LinearInit /\ [][LinearNext]_vars

(***************************************************************************)
(* Claims about numerical_table.                                           *)
(***************************************************************************)
\* the element (r, c) of table t, for 1 <= r <= t.M and 1 <= c <= t.N
Cell(t, r, c) == t.data[(c - 1) * t.M + r]
RowOf(t, r) == [c \in 1..t.N |-> Cell(t, r, c)]
ColumnOf(t, c) == [r \in 1..t.M |-> Cell(t, r, c)]

\* C8: get_element(r, c) returns the stored element when 1 <= r <= M and
\* 1 <= c <= N and absent for every other index pair, r = 0 and c = 0
\* included; get_row and get_column return absent for every index outside
\* their range, 0 included; none of them reads outside the backing store.
C8_GetOutsideRangeIsAbsent ==
    /\ op.name = "get_element" =>
          IF op.i \in 1..pre.M /\ op.j \in 1..pre.N
          THEN res = Present(Cell(pre, op.i, op.j))
          ELSE res = Absent
    /\ (op.name = "get_row" /\ op.i \notin 1..pre.M) => res = Absent
    /\ (op.name = "get_column" /\ op.j \notin 1..pre.N) => res = Absent
    /\ op.name \in {"get_element", "get_row", "get_column"} =>
          (status = "ok" /\ ~res.ub)

\* C9: set_element, set_row, set_column, swap_row and swap_column leave the
\* table unchanged when an index is outside its 1-based range (0 included)
\* or, for set_row and set_column, the sequence has the wrong length.
C9_InvalidMutationIsNoOp ==
    LET rowBad(i) == i \notin 1..pre.M
        colBad(j) == j \notin 1..pre.N
        invalid ==
            \/ op.name = "set_element" /\ (rowBad(op.i) \/ colBad(op.j))
            \/ op.name = "set_row" /\ (rowBad(op.i) \/ Len(op.vals) # pre.N)
            \/ op.name = "set_column" /\ (colBad(op.j) \/ Len(op.vals) # pre.M)
            \/ op.name = "swap_row" /\ (rowBad(op.i) \/ rowBad(op.j))
            \/ op.name = "swap_column" /\ (colBad(op.i) \/ colBad(op.j))
    IN  invalid => (status = "ok" /\ ~res.ub /\ tbl = pre)

\* C10: for 1 <= c <= N and v of length M, after set_column(c, v) column c
\* is v and every other column is unchanged; for 1 <= r <= M and v of length
\* N, after set_row(r, v) row r is v and every other row is unchanged.
C10_SetLineStoresLine ==
    /\ (op.name = "set_column" /\ op.j \in 1..pre.N /\ Len(op.vals) = pre.M) =>
          /\ tbl.M = pre.M /\ tbl.N = pre.N
          /\ get_column(tbl, op.j) = Present(op.vals)
          /\ \A c \in 1..pre.N : c # op.j => ColumnOf(tbl, c) = ColumnOf(pre, c)
    /\ (op.name = "set_row" /\ op.i \in 1..pre.M /\ Len(op.vals) = pre.N) =>
          /\ tbl.M = pre.M /\ tbl.N = pre.N
          /\ get_row(tbl, op.i) = Present(op.vals)
          /\ \A r \in 1..pre.M : r # op.i => RowOf(tbl, r) = RowOf(pre, r)

\* C24: on a table of any shape M x N, swap_column(i, j) with 1 <= i, j <= N
\* exchanges columns i and j and leaves every other column and the
\* dimensions unchanged, also when i <= M < j; swap_row(i, j) with
\* 1 <= i, j <= M does the same for rows.
C24_SwapExchangesLines ==
    /\ (op.name = "swap_column" /\ op.i \in 1..pre.N /\ op.j \in 1..pre.N) =>
          /\ status = "ok"
          /\ tbl.M = pre.M /\ tbl.N = pre.N
          /\ ColumnOf(tbl, op.i) = ColumnOf(pre, op.j)
          /\ ColumnOf(tbl, op.j) = ColumnOf(pre, op.i)
          /\ \A c \in 1..pre.N :
                c \notin {op.i, op.j} => ColumnOf(tbl, c) = ColumnOf(pre, c)
    /\ (op.name = "swap_row" /\ op.i \in 1..pre.M /\ op.j \in 1..pre.M) =>
          /\ status = "ok"
          /\ tbl.M = pre.M /\ tbl.N = pre.N
          /\ RowOf(tbl, op.i) = RowOf(pre, op.j)
          /\ RowOf(tbl, op.j) = RowOf(pre, op.i)
          /\ \A r \in 1..pre.M :
                r \notin {op.i, op.j} => RowOf(tbl, r) = RowOf(pre, r)

\* rows >= 1, columns >= 1 and a store of exactly rows * columns elements
WellFormed(t) == t.M >= 1 /\ t.N >= 1 /\ Len(t.data) = t.M * t.N

\* C11: after construction and after every copy, move, set_M, set_N (0
\* included) and transpose, the table has rows >= 1, columns >= 1 and a
\* backing store of exactly rows * columns elements, and so has every table
\* such a call returns; a moved-from table is the 1x1 table {1}.
C11_TableStaysWellFormed ==
    /\ WellFormed(tbl)
    /\ res.k = "value" => WellFormed(res.v)
    /\ (op.name = "move_construct" /\ status = "ok") =>
          tbl = [M |-> 1, N |-> 1, data |-> <<One>>]
    /\ (op.name = "move_assign" /\ status = "ok") =>
          res.v = [M |-> 1, N |-> 1, data |-> <<One>>]

\* C12: numerical_table(M, N, data) with M >= 1, N >= 1, M * N elements
\* within what a vector can hold and data of length L yields an M x N table
\* whose element (r, c) is data[(c-1)*M + (r-1)] (0-based) when that index is
\* below L and zero otherwise.
C12_ConstructorFillsColumnMajor ==
    (/\ op.name = "numerical_table"
     /\ op.i >= 1
     /\ op.j >= 1
     /\ op.i * op.j <= max_size) =>
        /\ res.k = "value"
        /\ tbl = res.v
        /\ tbl.M = op.i
        /\ tbl.N = op.j
        /\ \A r \in 1..op.i, c \in 1..op.j :
              get_element(tbl, r, c) =
                  Present(IF (c - 1) * op.i + (r - 1) < Len(op.vals)
                          THEN op.vals[(c - 1) * op.i + (r - 1) + 1]
                          ELSE Zero)

\* the constructor zero-padded a 2-row table given fewer values than cells
C12_Witness ==
    /\ op.name = "numerical_table"
    /\ op.i = 2
    /\ op.j >= 1
    /\ op.j <= MaxDim
    /\ Len(op.vals) > 0
    /\ Len(op.vals) < op.i * op.j
    /\ op.vals[Len(op.vals)] = One
    /\ Len(tbl.data) = op.i * op.j
    /\ tbl.data[Len(op.vals)] = One
    /\ tbl.data[op.i * op.j] = Zero

\* C13: numerical_table(M, N, data) with M = 0 or N = 0 throws
\* std::invalid_argument for every data and leaves the client's table as it
\* was; no table, held or returned, has a zero dimension.
C13_ZeroDimensionIsRejected ==
    /\ (op.name = "numerical_table" /\ (op.i = 0 \/ op.j = 0)) =>
          (res = InvalidArgument /\ tbl = pre /\ status = "ok")
    /\ tbl.M # 0
    /\ tbl.N # 0
    /\ res.k = "value" => (res.v.M # 0 /\ res.v.N # 0)

\* the constructor refused a zero column count although data was given
C13_Witness ==
    /\ op.name = "numerical_table"
    /\ op.i >= 1
    /\ op.j = 0
    /\ Len(op.vals) > 0
    /\ res = InvalidArgument

\* C14: for every M x N table A, A.transpose() is an N x M table with
\* element (j, i) equal to A's element (i, j), A is unchanged, and
\* A.transpose().transpose() equals A.
C14_TransposeIsInvolution ==
    (op.name = "transpose" /\ WellFormed(pre)) =>
        /\ status = "ok"
        /\ ~res.ub
        /\ res.k = "value"
        /\ res.v.M = pre.N
        /\ res.v.N = pre.M
        /\ Len(res.v.data) = pre.M * pre.N
        /\ \A i \in 1..pre.M, j \in 1..pre.N :
              get_element(res.v, j, i) = get_element(pre, i, j)
        /\ tbl = pre
        /\ transpose(res.v) = [t |-> pre, ub |-> FALSE]

\* a table with more columns than rows and unequal elements was transposed
C14_Witness ==
    /\ op.name = "transpose"
    /\ WellFormed(pre)
    /\ pre.M < pre.N
    /\ pre.data[1] # pre.data[Len(pre.data)]
    /\ res.k = "value"
    /\ res.v.M = pre.N

(***************************************************************************)
(* Claims about det.                                                       *)
(***************************************************************************)
\* C1: for every determinant of order N >= 2, elimination_calculate()
\* returns the value general_calculate() returns, also when the leading
\* pivot is zero and elimination has to swap rows.
C1_EliminationAgreesWithGeneral ==
    (op.name = "elimination_calculate" /\ pre.M >= 2) =>
        res = Present(general_calculate(pre))

\* (-1)^n as a double
Sign(n) == IF n % 2 = 0 THEN One ELSE Neg(One)

\* the permutations of 1..n, and the number of inversions of one
Arrangements(n) ==
    {q \in [1..n -> 1..n] : \A a \in 1..n, b \in 1..n : a # b => q[a] # q[b]}

Inversions(q) ==
    Cardinality({ab \in (1..Len(q)) \X (1..Len(q)) :
                    ab[1] < ab[2] /\ q[ab[1]] > q[ab[2]]})

\* the product of the elements (i, q(i)) for i = 1..n, every factor taken
RECURSIVE ProductAlong(_, _, _)
ProductAlong(d, q, n) ==
    IF n = 0 THEN One ELSE Mul(ProductAlong(d, q, n - 1), Cell(d, n, q[n]))

RECURSIVE SumOver(_, _)
SumOver(d, qs) ==
    IF qs = {} THEN Zero
    ELSE LET q == CHOOSE q \in qs : TRUE
         IN  Add(Mul(Sign(Inversions(q)), ProductAlong(d, q, Len(q))),
                 SumOver(d, qs \ {q}))

LeibnizSum(d) == SumOver(d, Arrangements(d.M))

\* C21: general_calculate() of a determinant of order N returns the sum,
\* over the N! permutations q of 1..N, of sign(q) times the product of the
\* elements (i, q(i)), with sign +1 for an even number of inversions and -1
\* for an odd one; the loop visits every permutation exactly once; for N = 1
\* the result is the single element.
C21_GeneralCalculateIsLeibniz ==
    op.name = "general_calculate" =>
        /\ status = "ok"
        /\ tbl = pre
        /\ res = Present(IF pre.M = 1 THEN Cell(pre, 1, 1) ELSE LeibnizSum(pre))
        /\ LET visited == VisitLoop([i \in 1..pre.M |-> i], <<>>)
           IN  /\ {visited[h] : h \in 1..Len(visited)} = Arrangements(pre.M)
               /\ Len(visited) = Cardinality(Arrangements(pre.M))

\* a determinant of order 3 with zero entries, so that terms are cut short,
\* and a value only odd permutations can give
C21_Witness ==
    /\ op.name = "general_calculate"
    /\ pre.M = 3
    /\ \E p \in 1..9 : pre.data[p] = Zero
    /\ res = Present(<<-2, 1>>)

\* C22: after elimination() on a determinant of order N >= 2 the table is
\* upper-triangular: every entry (r, c) with r > c is zero, and the order is
\* unchanged.
C22_EliminationIsUpperTriangular ==
    (op.name = "elimination" /\ pre.M >= 2) =>
        /\ status = "ok"
        /\ tbl.M = pre.M
        /\ tbl.N = pre.N
        /\ \A r \in 1..tbl.M, c \in 1..tbl.N : r > c => Cell(tbl, r, c) = Zero

\* C15: for a determinant of order N >= 2 and 1 <= i, j <= N, m_i_j(i, j)
\* is the determinant of order N - 1 made of the rows other than i, in
\* order, each without its entry of column j; it is absent when i or j is
\* outside 1..N (0 included) or N = 1; the receiver is unchanged.
C15_MinorDeletesRowAndColumn ==
    op.name = "m_i_j" =>
        /\ tbl = pre
        /\ status = "ok"
        /\ IF pre.M >= 2 /\ op.i \in 1..pre.M /\ op.j \in 1..pre.M
           THEN /\ res.k = "value"
                /\ res.v.M = pre.M - 1
                /\ res.v.N = pre.M - 1
                /\ Len(res.v.data) = (pre.M - 1) * (pre.M - 1)
                /\ \A r \in 1..(pre.M - 1), c \in 1..(pre.M - 1) :
                      Cell(res.v, r, c) =
                          Cell(pre, IF r < op.i THEN r ELSE r + 1,
                                    IF c < op.j THEN c ELSE c + 1)
           ELSE res = Absent

\* the minor (2, 2) of a determinant of order 3 whose corners differ from
\* its centre
C15_Witness ==
    /\ op.name = "m_i_j"
    /\ pre.M = 3
    /\ op.i = 2
    /\ op.j = 2
    /\ Cell(pre, 2, 2) = Zero
    /\ res.k = "value"
    /\ res.v.data = <<One, One, One, One>>

\* C16: algebraic_complement_minor(i, j) returns absent, and neither throws
\* nor aborts, exactly when m_i_j(i, j) is absent: i or j outside 1..N, or
\* N = 1.
C16_CofactorAbsentLikeMinor ==
    op.name = "algebraic_complement_minor" =>
        /\ status = "ok"
        /\ res.k \in {"absent", "value"}
        /\ res.k = "absent" <=>
              (pre.M = 1 \/ op.i \notin 1..pre.M \/ op.j \notin 1..pre.M)

\* C17: for every determinant of order N >= 2 and 1 <= i, j <= N, the value
\* of algebraic_complement_minor(i, j) is (-1)^(i+j) times the value of
\* m_i_j(i, j), also for N = 3, where the minor has even order.
C17_CofactorValueIsSignedMinor ==
    (/\ op.name = "algebraic_complement_minor"
     /\ pre.M >= 2
     /\ op.i \in 1..pre.M
     /\ op.j \in 1..pre.M) =>
        /\ res.k = "value"
        /\ general_calculate(res.v) =
              Mul(Sign(op.i + op.j), general_calculate(m_i_j(pre, op.i, op.j).v))

(***************************************************************************)
(* Claims about matrix.                                                    *)
(***************************************************************************)
Identity(n) ==
    [M |-> n, N |-> n,
     data |-> [p \in 1..(n * n) |->
                  IF (p - 1) \div n = (p - 1) % n THEN One ELSE Zero]]

\* the determinant of a square table, by the Leibniz expansion
Determinant(t) == general_calculate(t)

\* C2: for every square matrix A of order >= 2 with a nonzero determinant,
\* inverse() is present and A * A.inverse() is the identity matrix.
C2_TimesInverseIsIdentity ==
    (/\ op.name \in {"inverse", "times_inverse"}
     /\ pre.M = pre.N
     /\ pre.M >= 2
     /\ Determinant(pre) # Zero) =>
        /\ op.name = "inverse" => res.k = "value"
        /\ op.name = "times_inverse" => res = Present(Identity(pre.M))

\* C5: inverse() returns absent, without throwing, when the matrix is not
\* square or its determinant is zero (the 1x1 matrix {0} included), and a
\* present matrix otherwise.
C5_InverseAbsentWhenSingular ==
    op.name = "inverse" =>
        IF pre.M # pre.N THEN res = Absent
        ELSE IF Determinant(pre) = Zero THEN res = Absent
        ELSE res.k = "value"

\* C18: for every square matrix A of order N >= 2, adjoint() is present and
\* its cell (i, j) is algebraic_complement_minor(i, j).general_calculate() of
\* A's determinant, for every 1 <= i, j <= N; adjoint() is absent when A is
\* not square or has a single row or column.
C18_AdjointHoldsCofactors ==
    op.name = "adjoint" =>
        IF pre.M = pre.N /\ pre.M >= 2
        THEN /\ res.k = "value"
             /\ res.v.M = pre.M
             /\ res.v.N = pre.N
             /\ \A i \in 1..pre.M, j \in 1..pre.N :
                   Cell(res.v, i, j) =
                       general_calculate(
                           algebraic_complement_minor(matrix_det(pre).v, i, j).v)
        ELSE res = Absent

\* the sum over h = 1..k of A(i, h) * B(h, j), starting from 0
RECURSIVE SumOfProducts(_, _, _, _, _)
SumOfProducts(A, B, i, j, k) ==
    IF k = 0 THEN Zero
    ELSE Add(SumOfProducts(A, B, i, j, k - 1), Mul(Cell(A, i, k), Cell(B, k, j)))

\* C20: for matrices A (M x K) and B (K2 x P), A * B is present iff K = K2;
\* when present it is the M x P matrix whose cell (i, j) is the sum over k
\* of A(i, k) * B(k, j); A and B are unchanged.
C20_ProductIsRowTimesColumn ==
    op.name = "operator*" =>
        LET B == [M |-> op.i, N |-> op.j, data |-> op.vals]
        IN  /\ status = "ok"
            /\ tbl = pre
            /\ IF pre.N = B.M
               THEN /\ res.k = "value"
                    /\ res.v.M = pre.M
                    /\ res.v.N = B.N
                    /\ Len(res.v.data) = pre.M * B.N
                    /\ \A i \in 1..pre.M, j \in 1..B.N :
                          Cell(res.v, i, j) = SumOfProducts(pre, B, i, j, pre.N)
               ELSE res = Absent

\* a product of a 1 x 2 and a 2 x 2 matrix with a cell that sums two products
C20_Witness ==
    /\ op.name = "operator*"
    /\ pre.M = 1
    /\ pre.N = 2
    /\ op.i = 2
    /\ op.j = 2
    /\ res.k = "value"
    /\ res.v.data = <<<<2, 1>>, <<1, 1>>>>

\* C25: elimination() of a matrix of any shape M x N, M > N and M < N - 1
\* included, never unwraps the absent result of a get_element outside the
\* matrix and leaves the dimensions unchanged; a matrix with a single row or
\* a single column is returned unchanged.
C25_EliminationStaysInsideMatrix ==
    op.name = "matrix_elimination" =>
        /\ status = "ok"
        /\ ~res.ub
        /\ tbl.M = pre.M /\ tbl.N = pre.N
        /\ (pre.M = 1 \/ pre.N = 1) => tbl = pre

\* C19: in adjoint() of an N x N matrix, under every interleaving of the
\* N * N threads, each cell (i, j) of the result is written at most once and
\* by the thread for (i, j) only, exactly once when that thread has finished;
\* no thread changes the determinant snapshot; adjoint() returns only after
\* every thread has finished, and what it returns is the matrix the
\* sequential cell-by-cell evaluation produces.
C19_AdjointJoinsAllThreads ==
    /\ adj.pc # "idle" =>
          /\ adj.tdet = matrix_det(pre).v
          /\ \A k \in 1..Len(adj.w) :
                LET p == (thread_c(adj, k) - 1) * pre.M + thread_r(adj, k)
                IN  /\ adj.writers[p] \in {<<>>, <<k>>}
                    /\ adj.w[k] = "done" <=> adj.writers[p] = <<k>>
                    /\ adj.w[k] # "done" => Cell(adj.result, thread_r(adj, k),
                                                thread_c(adj, k)) = Zero
    /\ (op.name = "adjoint" /\ res.k = "value") =>
          /\ \A k \in 1..Len(adj.w) : adj.w[k] = "done"
          /\ res = adjoint(pre)
    /\ (op.name = "adjoint" /\ res.k = "pending") => adj.pc # "returned"

\* adjoint() of the matrix with rows (1 3), (2 4) has returned the four
\* minors, each cell written once by its own thread
C19_Witness ==
    /\ op.name = "adjoint"
    /\ pre.M = 2
    /\ adj.pc = "returned"
    /\ res.k = "value"
    /\ res.v.data = <<<<4, 1>>, <<3, 1>>, <<2, 1>>, <<1, 1>>>>
    /\ adj.writers = <<<<1>>, <<3>>, <<2>>, <<4>>>>

(***************************************************************************)
(* Claims about linear_equations.                                          *)
(***************************************************************************)
\* the first N - 1 columns of the augmented table, for N >= 2
Coefficients(t) == matrix(t.M, t.N - 1, SubSeq(t.data, 1, t.M * (t.N - 1)))

WellPosed(t) ==
    /\ t.M >= 2
    /\ t.N = t.M + 1
    /\ Determinant(Coefficients(t)) # Zero

NoUnknown(xs) == \A i \in 0..(MaxEq + 2) : x_n(xs, i) = Absent

\* table A with column i replaced by the sequence v
ReplaceColumn(A, i, v) ==
    [A EXCEPT !.data = [p \in 1..Len(A.data) |->
                           IF ((p - 1) \div A.M) + 1 = i
                           THEN v[((p - 1) % A.M) + 1]
                           ELSE A.data[p]]]

\* C23: for a system with M = N - 1 > 1 equations and a nonzero coefficient
\* determinant D, after calculate() the solution vector has N - 1 entries
\* and entry i is det(C_i) / D, where C_i is the coefficient matrix with
\* column i, and no other, replaced by the constants column; the augmented
\* table is unchanged.
C23_CramerReplacesOneColumn ==
    (op.name = "calculate" /\ WellPosed(pre)) =>
        /\ status = "ok"
        /\ tbl = pre
        /\ Len(x) = pre.N - 1
        /\ \A i \in 1..(pre.N - 1) :
              x[i] = Div(LeibnizSum(ReplaceColumn(Coefficients(pre), i,
                                                  ColumnOf(pre, pre.N))),
                         LeibnizSum(Coefficients(pre)))

\* x + y = 0, y = 1 was solved: D = 1, the first quotient is -1 and the
\* second, taken after column 1 was restored, is 1
C23_Witness ==
    /\ op.name = "calculate"
    /\ WellPosed(pre)
    /\ pre.data = <<One, Zero, One, One, Zero, One>>
    /\ x = <<Neg(One), One>>

\* C3: for every augmented system with M equations, N = M + 1 columns and a
\* nonzero coefficient determinant, calculate_inverse() leaves the solution
\* vector calculate() leaves.
C3_SolversAgree ==
    (op.name = "calculate_inverse" /\ WellPosed(pre)) =>
        (status = "ok" /\ x = calculate(pre, op.vals).x)

\* C4: after a successful solve that computed K = N - 1 unknowns, x_n(i)
\* returns the i-th unknown for every 1 <= i <= K and absent for i = 0 and
\* for i > K; before any solve it is absent for every i.
C4_XnReturnsEachUnknown ==
    (/\ op.name = "x_n"
     /\ \/ x = <<>>
        \/ WellPosed(pre) /\ Len(x) = pre.N - 1) =>
        /\ status = "ok"
        /\ ~res.ub
        /\ IF 1 <= op.i /\ op.i <= Len(x) THEN res = Present(x[op.i])
           ELSE res = Absent

\* C6: when the coefficient matrix of a system with M > 1 is not invertible
\* (not square, or square with a zero determinant), calculate_inverse() does
\* not abort and leaves the solution vector empty, x_n(i) absent for all i.
C6_InverseSolveAbandonsSingular ==
    (/\ op.name = "calculate_inverse"
     /\ pre.M > 1
     /\ pre.N >= 2
     /\ \/ pre.M # pre.N - 1
        \/ Determinant(Coefficients(pre)) = Zero) =>
        (status = "ok" /\ x = <<>> /\ NoUnknown(x))

\* C7: when the coefficient determinant of a system with M > 1 evaluates to
\* zero, calculate() leaves the solution vector empty and x_n(i) absent for
\* every i, whatever calculate() and calculate_inverse() calls came before.
C7_CramerAbandonsSingular ==
    (/\ op.name = "calculate"
     /\ pre.M > 1
     /\ pre.N >= 2
     /\ general_calculate(coefficient_det(pre)) = Zero) =>
        (status = "ok" /\ x = <<>> /\ NoUnknown(x))

\* calculate() found a zero determinant while _x still held the entries an
\* earlier calculate_inverse() had left
C7_Witness ==
    /\ op.name = "calculate"
    /\ pre.M > 1
    /\ pre.N >= 2
    /\ general_calculate(coefficient_det(pre)) = Zero
    /\ Len(op.vals) > 0
    /\ status = "ok"
    /\ x = <<>>

====
